---- MODULE Spec2Model ----
(***************************************************************************)
(* BIST 100 direction-prediction pipeline: data acquisition (data.py,      *)
(* data_collector.py), training (model.py, model_trainer.py) and the       *)
(* dashboard's serving path (app.py), as state machines over the cache     *)
(* files the components share.                                             *)
(*                                                                         *)
(* A price table (DataFrame) is abstracted to its ordered column list and  *)
(* its row count; None is the record with some = FALSE.  A file holds a    *)
(* table or is absent (some = FALSE).  The feature builder and the lag     *)
(* analysis (data.py) take the table by value, cell by cell; get_data's    *)
(* date arithmetic takes it as the set of its dates.                       *)
(***************************************************************************)
EXTENDS Integers, Sequences, FiniteSets, TLC

\* ------------------------------------------------------------------ bounds
\* How many entries of the symbol registry (taken in registry order) the
\* provider is queried for, and the longest history a query returns.
NumSymbols == 3
MaxRows == 3

\* The longest price table handed to the feature builder and the lag
\* analysis, in trading days.
MaxDates == 5

\* How many of the calendar's trading days have passed when get_data is
\* asked for a date range.
NumDays == 4

\* ------------------------------------------------------- symbol registry
Registry == <<"BIST100", "Gold", "Oil", "USDTRY", "US10Y", "NatGas", "VIX">>

get_symbols == SubSeq(Registry, 1, NumSymbols)

SymbolSet == {get_symbols[i] : i \in 1..Len(get_symbols)}

\* What yf.download does for one symbol: data, an empty frame, an exception.
Outcomes == {"ok", "empty", "exc"}

ProviderAnswers == [SymbolSet -> Outcomes]

\* ----------------------------------------------------------------- tables
None == [some |-> FALSE, cols |-> <<>>, rows |-> 0]

Table(cols, rows) == [some |-> TRUE, cols |-> cols, rows |-> rows]

Has(seq, x) == \E i \in 1..Len(seq) : seq[i] = x

ChangeName(col) == col \o "_change"

ChangeCols(cols) == [i \in 1..Len(cols) |-> ChangeName(cols[i])]

\* df[(df.index >= start_date) & (df.index <= end_date)]: the columns stay,
\* any number of the rows may lie in the requested range.
DateFiltered(df) == {Table(df.cols, k) : k \in 0..df.rows}

\* ------------------------------------------------------ per-symbol loop
\* The loop of download_data and of get_data's inline fallback: one
\* yf.download per symbol, in registry order; an exception or an empty
\* frame skips the symbol, data stores its Close series under its name.
RECURSIVE FetchAbortOnError(_, _, _, _)
FetchAbortOnError(symbols, o, i, acc) ==
    IF i > Len(symbols) THEN acc
    ELSE LET name == symbols[i]
             att  == Append(acc.attempts, name)
         IN  IF o[name] = "exc"
             THEN [attempts |-> att, data_frames |-> acc.data_frames]
             ELSE FetchAbortOnError(symbols, o, i + 1,
                     [attempts |-> att,
                      data_frames |-> IF o[name] = "ok"
                                      THEN Append(acc.data_frames, name)
                                      ELSE acc.data_frames])

RECURSIVE FetchLoop(_, _, _, _)
FetchLoop(symbols, o, i, acc) ==
    IF i > Len(symbols) THEN acc
    ELSE LET name == symbols[i]
             att  == Append(acc.attempts, name)
         IN  FetchLoop(symbols, o, i + 1,
                 [attempts |-> att,
                  data_frames |-> IF o[name] = "ok"
                                  THEN Append(acc.data_frames, name)
                                  ELSE acc.data_frames])

FetchAll(symbols, o) ==
    FetchLoop(symbols, o, 1, [attempts |-> <<>>, data_frames |-> <<>>])

\* download_data: None when no symbol gave data, else one column per
\* stored series; n is the length of the history the provider returned.
download_data(o, n) ==
    LET f == FetchAll(get_symbols, o)
    IN  [attempts    |-> f.attempts,
         data_frames |-> f.data_frames,
         df          |-> IF Len(f.data_frames) = 0 THEN None
                         ELSE Table(f.data_frames, n)]

\* get_data's inline fallback builds its DataFrame unconditionally: with no
\* series at all it is the empty DataFrame (no column, no row).
InlineDownload(o, n) ==
    LET f == FetchAll(get_symbols, o)
    IN  [attempts    |-> f.attempts,
         data_frames |-> f.data_frames,
         df          |-> IF Len(f.data_frames) = 0 THEN Table(<<>>, 0)
                         ELSE Table(f.data_frames, n)]

\* ------------------------------------------------- prepare_training_data
\* df['BIST100'] raises KeyError without the target column; the aligned
\* index (change rows 2..n intersected with label rows 1..n-1) has n - 2
\* rows, and StandardScaler.fit_transform raises on an empty matrix.
AlignedRows(n) == IF n >= 2 THEN n - 2 ELSE 0

prepare_training_data(df) ==
    IF ~Has(df.cols, "BIST100") THEN [raised |-> TRUE, why |-> "target_missing", prepared_data |-> None]
    ELSE IF AlignedRows(df.rows) = 0 THEN [raised |-> TRUE, why |-> "empty_aligned", prepared_data |-> None]
    ELSE [raised |-> FALSE, why |-> "",
          prepared_data |-> Table(Append(ChangeCols(df.cols), "target"), AlignedRows(df.rows))]

\* ---------------------------------------------------------- collect_data
\* The files after the call and how the call ended:
\*   "none"   returned (None, None, None): no symbol gave data
\*   "raised" an exception left the call (after save_raw_data already ran)
\*   "ok"     returned (df, prepared_data, metadata_path)
\* With save = False the return statement reads metadata_path, which was
\* never assigned: the call raises UnboundLocalError.
collect_data(fs, o, n, save) ==
    LET dl  == download_data(o, n)
        df  == dl.df
        fs1 == IF save THEN [fs EXCEPT !.raw = df] ELSE fs
        p   == prepare_training_data(df)
        fs2 == IF save THEN [fs1 EXCEPT !.prep = p.prepared_data, !.meta = df] ELSE fs1
    IN  IF ~df.some
        THEN [kind |-> "none", why |-> "zero_symbols", df |-> None, files |-> fs, dl |-> dl]
        ELSE IF p.raised
        THEN [kind |-> "raised", why |-> p.why, df |-> None, files |-> fs1, dl |-> dl]
        ELSE IF ~save
        THEN [kind |-> "raised", why |-> "unbound_metadata_path", df |-> None, files |-> fs2, dl |-> dl]
        ELSE [kind |-> "ok", why |-> "", df |-> df, files |-> fs2, dl |-> dl]

\* ------------------------------------------------------- get_data's chain
\* Where get_data goes after each strategy.
AfterCache(exists) == IF exists THEN "done" ELSE "collector"

AfterCollectorAlways(kind) == "download"

AfterCollector(kind) == IF kind = "ok" THEN "done" ELSE "download"

AfterDownload(df) == IF df.some THEN "done" ELSE "inline"


\* ----------------------------------------------------------- training
\* Held-out accuracies, in twentieths (a test split of 20 rows): 0, 0.50,
\* 0.55 and 0.60.
AccLevels == {0, 10, 11, 12}

\* model.py's param_combinations; learning_rate in hundredths.
param_combinations ==
    << [n_estimators |-> 100, learning_rate |-> 10, max_depth |-> 3],
       [n_estimators |-> 200, learning_rate |-> 5,  max_depth |-> 5],
       [n_estimators |-> 100, learning_rate |-> 10, max_depth |-> 6],
       [n_estimators |-> 150, learning_rate |-> 5,  max_depth |-> 4],
       [n_estimators |-> 100, learning_rate |-> 1,  max_depth |-> 7] >>

Candidates == 1..Len(param_combinations)

AccuracyRuns == [Candidates -> AccLevels]

\* The accuracy sequences the training runs are exercised with: one level up
\* to some candidate, another level from it on.
GridRuns ==
    {[c \in Candidates |-> IF c < k THEN a ELSE b] : a \in AccLevels, b \in AccLevels, k \in Candidates}

\* best_accuracy = 0, best_params = best_model = best_results = None;
\* index 0 stands for None.
NoBest == [accuracy |-> 0, index |-> 0]

\* One pass of the loop body: `if accuracy > best_accuracy`.
Consider(best, i, accuracy) ==
    IF accuracy > best.accuracy THEN [accuracy |-> accuracy, index |-> i] ELSE best

RECURSIVE BestFrom(_, _, _)
BestFrom(accs, i, best) ==
    IF i > Len(param_combinations) THEN best
    ELSE BestFrom(accs, i + 1, Consider(best, i, accs[i]))

SelectBest(accs) == BestFrom(accs, 1, NoBest)

\* cross_val_score(model, X, y, cv=5) raises when the data has fewer rows
\* than folds.
CvFolds == 5

\* A prepared-data file: feature columns followed by 'target'.
Prepared(features, rows) == Table(Append(features, "target"), rows)

FeaturesOf(prepared) == SubSeq(prepared.cols, 1, Len(prepared.cols) - 1)

NoModel == [some |-> FALSE, cols |-> <<>>, params |-> 0]

\* A pickled classifier: the ordered columns it was fitted on and which
\* hyperparameters (0: train_and_evaluate_model's defaults, 1..5: the grid).
Model(cols, params) == [some |-> TRUE, cols |-> cols, params |-> params]

NoMetadata == [some |-> FALSE, feature_names |-> <<>>, accuracy |-> 0, train_size |-> 0]

\* save_model_metadata: models/model_metadata.pkl, next to the model file.
save_model_metadata(feature_names, accuracy, rows) ==
    [some |-> TRUE, feature_names |-> feature_names, accuracy |-> accuracy,
     train_size |-> rows - ((rows + 4) \div 5)]

\* check_success_criteria and the grid search's `best_accuracy > 0.55`.
Threshold == 11

SuccessAtThreshold(accuracy) == accuracy >= Threshold

check_success_criteria(accuracy) == accuracy > Threshold

ModelNames == {"current_model", "bist_model"}

DataFileNames == {"data/bist_emtia_prepared_data.csv", "data/custom_prepared.csv"}

\* train_and_evaluate_model(data_file, model_name=...): the model directory
\* after the call and what the call returned.
train_and_evaluate_model(dir, prepared, model_name, accuracy) ==
    LET feats == FeaturesOf(prepared)
        m     == Model(feats, 0)
        md    == save_model_metadata(feats, accuracy, prepared.rows)
    IN  IF ~prepared.some
        THEN [dir |-> dir, kind |-> "returned", arity |-> 5, model |-> NoModel,
              accuracy |-> 0, success |-> FALSE]
        ELSE IF prepared.rows < CvFolds
        THEN [dir |-> dir, kind |-> "raised", arity |-> 0, model |-> NoModel,
              accuracy |-> 0, success |-> FALSE]
        ELSE [dir |-> [dir EXCEPT ![model_name] = m, !.model_metadata = md],
              kind |-> "returned", arity |-> 6, model |-> m,
              accuracy |-> accuracy, success |-> check_success_criteria(accuracy)]

\* train_with_different_params(data_file, verbose): the best model goes to
\* models/bist_model.pkl only under `best_model is not None and verbose`;
\* save_model runs before cross_validate; no metadata is written.
train_with_different_params(dir, prepared, verbose, accs) ==
    LET feats == FeaturesOf(prepared)
        best  == SelectBest(accs)
        m     == IF best.index = 0 THEN NoModel ELSE Model(feats, best.index)
        saved == [dir EXCEPT !.bist_model = m]
    IN  IF ~prepared.some
        THEN [dir |-> dir, kind |-> "returned", arity |-> 4, model |-> NoModel,
              accuracy |-> 0, success |-> FALSE]
        ELSE IF best.index # 0 /\ verbose
        THEN IF prepared.rows < CvFolds
             THEN [dir |-> saved, kind |-> "raised", arity |-> 0, model |-> NoModel,
                   accuracy |-> 0, success |-> FALSE]
             ELSE [dir |-> saved, kind |-> "returned", arity |-> 4, model |-> m,
                   accuracy |-> best.accuracy, success |-> best.accuracy > Threshold]
        ELSE [dir |-> dir, kind |-> "returned", arity |-> 4, model |-> m,
              accuracy |-> best.accuracy, success |-> FALSE]


\* ------------------------------------------------------------- serving
\* last_5_days.pct_change() * 100 on the last two rows, per column; the
\* prices are chosen so that the division is exact.
PctChange100(prev, last) == ((last - prev) * 100) \div prev

\* daily_change.iloc[-1:]: the change row keeps the price table's column
\* names (no '_change' suffix is added at serving time).
ChangeRowCols(raw) == raw.cols

ChangeRowValue(tail, col) == PctChange100(tail.prev[col], tail.last[col])

\* Position of a column name in the change row, 0 when it is no column.
ColumnIndex(cols, name) ==
    IF Has(cols, name) THEN CHOOSE i \in 1..Len(cols) : cols[i] = name ELSE 0

\* app.py lines 188-204: the stored feature names select the change row's
\* columns in stored order; a stored name that is no column gets 0.
ZeroFilledSkipMissing(raw, tail, model_features) ==
    LET cols    == ChangeRowCols(raw)
        present == SelectSeq(model_features, LAMBDA f : Has(cols, f))
    IN  [i \in 1..Len(present) |->
            ChangeRowValue(tail, raw.cols[ColumnIndex(cols, present[i])])]

ZeroFilled(raw, tail, model_features) ==
    LET cols == ChangeRowCols(raw)
    IN  [i \in 1..Len(model_features) |->
            IF Has(cols, model_features[i])
            THEN ChangeRowValue(tail, raw.cols[ColumnIndex(cols, model_features[i])])
            ELSE 0]

\* missing_features, line 198.
MissingFeatures(raw, model_features) ==
    SelectSeq(model_features, LAMBDA f : ~Has(ChangeRowCols(raw), f))

\* app.py lines 206-208: without stored names, every column's change.
AllChanges(raw, tail) == [i \in 1..Len(raw.cols) |-> ChangeRowValue(tail, raw.cols[i])]

\* app.py lines 179-185: the names stored in models/model_metadata.pkl;
\* the empty list stands for None (both are falsy at line 188).
StoredFeatureNames(dir) ==
    IF dir.model_metadata.some THEN dir.model_metadata.feature_names ELSE <<>>

ServedFeatures(raw, tail, dir) ==
    IF StoredFeatureNames(dir) # <<>>
    THEN ZeroFilled(raw, tail, StoredFeatureNames(dir))
    ELSE AllChanges(raw, tail)

\* StandardScaler.transform with fitted parameters: (x - mean) / std.
Standardize(fit, x) == (x - fit.mean) \div fit.std

\* app.py line 213 hands `features` to model.predict as built: no scaler is
\* loaded or applied between lines 188 and 213.
PassedToModel(fit, features) == features

\* The classifier rejects a vector whose length is not its column count.
PredictRaises(model, features) == Len(features) # Len(model.cols)

\* app.py lines 212-252: an exception of predict / predict_proba is caught
\* and reported with st.error + st.info; the script goes on.
PredictionUncaught(raised) ==
    IF raised THEN [pc |-> "crashed", shown |-> {}]
    ELSE [pc |-> "performance", shown |-> {"prediction"}]

PredictionStep(raised) ==
    IF raised THEN [pc |-> "performance", shown |-> {"prediction_error", "mismatch_hint"}]
    ELSE [pc |-> "performance", shown |-> {"prediction"}]

\* app.py lines 43-58: load_prepared_data reads the raw CSV, the prepared
\* CSV and data/metadata.txt; any exception gives (None, None, None).
load_prepared_data(fs, metadata_txt) ==
    IF fs.raw.some /\ fs.prep.some /\ metadata_txt
    THEN [raw_data |-> fs.raw, prepared_data |-> fs.prep, error |-> FALSE]
    ELSE [raw_data |-> None, prepared_data |-> None, error |-> TRUE]

\* app.py lines 61-71.
load_trained_model(dir) == dir.bist_model

\* get_lag_analysis absorbs analyze_lag_importance's exceptions: KeyError
\* without the target column, and the pivot of an empty record list (no
\* other column, or no lag smaller than the number of change rows).
LagAnalysisFails(raw) ==
    \/ ~Has(raw.cols, "BIST100")
    \/ Len(raw.cols) < 2
    \/ raw.rows < 3

\* An analysis exception that is not caught ends the script.
LagAnalysisUncaught(raw) ==
    IF LagAnalysisFails(raw) THEN [escaped |-> TRUE, lag |-> "failed", shown |-> {}]
    ELSE [escaped |-> FALSE, lag |-> "ok", shown |-> {}]

\* app.py lines 73-81: get_lag_analysis returns the analysis, or reports
\* the exception with st.error and returns (None, None).
get_lag_analysis(raw) ==
    IF LagAnalysisFails(raw) THEN [escaped |-> FALSE, lag |-> "failed", shown |-> {"lag_error"}]
    ELSE [escaped |-> FALSE, lag |-> "ok", shown |-> {}]

\* Tab 1's correlation chart reads corr_matrix['BIST100']
\* (visualization.py line 513).
MarketRaises(raw) == ~Has(raw.cols, "BIST100")

\* The columns tab 2 reads by name for its four metrics and the rows
\* daily_change.iloc[-1] needs.
MetricColumns == <<"BIST100", "Gold", "Oil", "USDTRY">>

MetricsRaise(raw) ==
    \/ raw.rows < 2
    \/ \E i \in 1..Len(MetricColumns) : ~Has(raw.cols, MetricColumns[i])

\* -------------------------------------------------------- feature builder
\* For the feature builder and the lag analysis a DataFrame is taken by
\* value: its ordered column names, the dates of its rows (positions in the
\* trading calendar, ascending) and, per column, one cell per row.
Frame(cols, index, data) == [cols |-> cols, index |-> index, data |-> data]

NaN == [nan |-> TRUE, v |-> 0]

Cell(v) == [nan |-> FALSE, v |-> v]

\* Closing prices, chosen so that every day-over-day change is a whole
\* number of hundredths.
Prices == {1, 2}

\* One cell of Series.pct_change(), in hundredths.
RelChange(prev, last) ==
    IF prev.nan \/ last.nan THEN NaN ELSE Cell(((last.v - prev.v) * 100) \div prev.v)

\* DataFrame.pct_change(): the first row has no previous row.
pct_change(df) ==
    Frame(df.cols, df.index,
          [c \in 1..Len(df.cols) |->
             [k \in 1..Len(df.index) |->
                IF k = 1 THEN NaN ELSE RelChange(df.data[c][k - 1], df.data[c][k])]])

\* DataFrame.dropna(): the rows without a missing cell, in order.
CompleteRows(t) ==
    SelectSeq([k \in 1..Len(t.index) |-> k],
              LAMBDA k : \A c \in 1..Len(t.cols) : ~t.data[c][k].nan)

KeepAllRows(t) == t

dropna(t) ==
    LET keep == CompleteRows(t)
    IN  Frame(t.cols,
              [j \in 1..Len(keep) |-> t.index[keep[j]]],
              [c \in 1..Len(t.cols) |-> [j \in 1..Len(keep) |-> t.data[c][keep[j]]]])

\* Series.shift(lag): row k sees the value of row k - lag.
shift(series, lag) ==
    [k \in 1..Len(series) |-> IF k <= lag THEN NaN ELSE series[k - lag]]

\* df_pct.columns = [f"{col}_change" ...]
RenamedChange(t) ==
    Frame([c \in 1..Len(t.cols) |-> ChangeName(t.cols[c])], t.index, t.data)

\* col.startswith('BIST100'), over the column names that occur.
StartsWithBIST100(col) == \E s \in {"", "_change"} : col = "BIST100" \o s

\* f"{col}_lag{lag}"
LagName(col, lag) == col \o "_lag" \o ToString(lag)

ExternalColsAll(cols) == cols

\* external_cols: the columns that get lagged copies.
ExternalCols(cols) == SelectSeq(cols, LAMBDA c : ~StartsWithBIST100(c))

LagPairsLagMajor(cols, lag_days) ==
    [j \in 1..(Len(cols) * Len(lag_days)) |->
       [col |-> cols[((j - 1) % Len(cols)) + 1],
        lag |-> lag_days[((j - 1) \div Len(cols)) + 1]]]

\* The (column, lag) pairs in the order the nested loops visit them: columns
\* in table order, lags in list order inside each column.
LagPairs(cols, lag_days) ==
    [j \in 1..(Len(cols) * Len(lag_days)) |->
       [col |-> cols[((j - 1) \div Len(lag_days)) + 1],
        lag |-> lag_days[((j - 1) % Len(lag_days)) + 1]]]

\* add_lag_features(df_pct, lag_days), for lag lists without repetition.
add_lag_features(df_pct, lag_days) ==
    LET pairs == LagPairs(ExternalCols(df_pct.cols), lag_days)
        lagged == Frame(df_pct.cols \o [j \in 1..Len(pairs) |-> LagName(pairs[j].col, pairs[j].lag)],
                       df_pct.index,
                       df_pct.data \o
                         [j \in 1..Len(pairs) |->
                            shift(df_pct.data[ColumnIndex(df_pct.cols, pairs[j].col)], pairs[j].lag)])
    IN  dropna(lagged)

\* (tomorrow > today).astype(int); a comparison with NaN is False.
NextDayUpOrEqual(today, tomorrow) ==
    IF ~today.nan /\ ~tomorrow.nan /\ tomorrow.v >= today.v THEN 1 ELSE 0

NextDayUp(today, tomorrow) ==
    IF ~today.nan /\ ~tomorrow.nan /\ tomorrow.v > today.v THEN 1 ELSE 0

\* df_target: indexed by df.index[:-1], 'target' from the BIST100 column.
df_target(df) ==
    LET p == df.data[ColumnIndex(df.cols, "BIST100")]
        n == IF Len(df.index) = 0 THEN 0 ELSE Len(df.index) - 1
    IN  [index  |-> SubSeq(df.index, 1, n),
         target |-> [k \in 1..n |-> NextDayUp(p[k], p[k + 1])]]

DateSet(index) == {index[k] : k \in 1..Len(index)}

\* a.intersection(b) of two sorted date indices.
IntersectionDropFirst(a, b) == SelectSeq(a, LAMBDA d : d \in DateSet(b) /\ d # a[1])

Intersection(a, b) == SelectSeq(a, LAMBDA d : d \in DateSet(b))

RowOf(index, d) == CHOOSE k \in 1..Len(index) : index[k] = d

NoPrepared == [raised |-> FALSE, at |-> "", df_pct |-> Frame(<<>>, <<>>, <<>>),
               labels |-> [index |-> <<>>, target |-> <<>>],
               clean_idx |-> <<>>, y |-> <<>>, feature_names |-> <<>>]

\* prepare_data(df, use_lags, lag_days): the change table, the labels, their
\* alignment, and where an exception comes from when one is raised.  The
\* scaled matrix has clean_idx as its rows and feature_names as its columns.
prepare_data(df, use_lags, lag_days) ==
    LET change == RenamedChange(dropna(pct_change(df)))
        df_pct == IF use_lags THEN add_lag_features(change, lag_days) ELSE change
    IN  IF ~Has(df.cols, "BIST100")
        THEN [NoPrepared EXCEPT !.raised = TRUE, !.at = "df['BIST100']", !.df_pct = df_pct]
        ELSE LET labels    == df_target(df)
                 clean_idx == Intersection(df_pct.index, labels.index)
                 y         == [j \in 1..Len(clean_idx) |->
                                 labels.target[RowOf(labels.index, clean_idx[j])]]
             IN  [raised |-> clean_idx = <<>>,
                  at |-> IF clean_idx = <<>> THEN "StandardScaler.fit_transform" ELSE "",
                  df_pct |-> df_pct, labels |-> labels, clean_idx |-> clean_idx,
                  y |-> y, feature_names |-> df_pct.cols]

\* data_collector.prepare_training_data by value: the same steps without
\* lags; prepared_data carries the feature columns and then 'target'.
prepare_training_data_values(df) ==
    LET r == prepare_data(df, FALSE, <<>>)
    IN  [r EXCEPT !.feature_names = IF r.raised THEN <<>> ELSE Append(r.feature_names, "target")]

\* ----------------------------------------------------------- lag analysis
\* analyze_lag_importance tries every lag from 1 to max_lag.
max_lag == 30

LagRange == [k \in 1..max_lag |-> k]

\* valid_idx: the dates where the shifted series has a value and the target
\* change exists.
valid_idx(df_pct, col, lag) ==
    LET lagged_series == shift(df_pct.data[ColumnIndex(df_pct.cols, col)], lag)
    IN  SelectSeq(df_pct.index,
                  LAMBDA d : ~lagged_series[RowOf(df_pct.index, d)].nan)

IsConstant(series, rows) ==
    \A i \in DateSet(rows), j \in DateSet(rows) : series[i] = series[j]

\* Series.corr over the aligned rows: NaN with fewer than two points or a
\* constant side; otherwise a number, of which only "defined" is kept.
Correlation(df_pct, target_col, col, lag) ==
    LET idx  == valid_idx(df_pct, col, lag)
        rows == [j \in 1..Len(idx) |-> RowOf(df_pct.index, idx[j])]
        t    == df_pct.data[ColumnIndex(df_pct.cols, target_col)]
        x    == shift(df_pct.data[ColumnIndex(df_pct.cols, col)], lag)
    IN  [nan |-> Len(idx) < 2 \/ IsConstant(t, rows) \/ IsConstant(x, rows)]

EmitAlways(n) == TRUE

\* `if len(valid_idx) > 0`
EmitRecord(n) == n > 0

NoAnalysis == [raised |-> FALSE, at |-> "", change_rows |-> 0, lag_corrs |-> <<>>]

\* analyze_lag_importance(df, target_col): the long-form records in the
\* order they are appended; the pivot of an empty record list raises.
analyze_lag_importance(df, target_col) ==
    LET df_pct == dropna(pct_change(df))
    IN  IF ~Has(df.cols, target_col)
        THEN [NoAnalysis EXCEPT !.raised = TRUE, !.at = "df_pct[target_col]",
                                !.change_rows = Len(df_pct.index)]
        ELSE LET other_cols == SelectSeq(df_pct.cols, LAMBDA c : c # target_col)
                 pairs == SelectSeq(LagPairs(other_cols, LagRange),
                                    LAMBDA p : EmitRecord(Len(valid_idx(df_pct, p.col, p.lag))))
                 lag_corrs == [j \in 1..Len(pairs) |->
                                 [variable |-> pairs[j].col, lag_days |-> pairs[j].lag,
                                  correlation |-> Correlation(df_pct, target_col,
                                                              pairs[j].col, pairs[j].lag)]]
             IN  [raised |-> lag_corrs = <<>>,
                  at |-> IF lag_corrs = <<>> THEN "pivot" ELSE "",
                  change_rows |-> Len(df_pct.index), lag_corrs |-> lag_corrs]

\* ---------------------------------------------------- get_data, by date
\* Day numbers of the trading days that occur; the last one that has passed
\* is today (datetime.now() in collect_data).
Calendar == <<0, 10, 400, 773, 1138>>

Days == {Calendar[i] : i \in 1..NumDays}

Today == Calendar[NumDays]

\* A date-indexed table taken as the set of its dates; absent when some is
\* FALSE.
Dated(dates) == [some |-> TRUE, dates |-> dates]

NoDated == [some |-> FALSE, dates |-> {}]

FilterByDateEndExclusive(dates, start_date, end_date) ==
    {d \in dates : d >= start_date /\ d < end_date}

\* df[(df.index >= start_date) & (df.index <= end_date)]
FilterByDate(dates, start_date, end_date) ==
    {d \in dates : d >= start_date /\ d <= end_date}

\* yf.download(symbol, start=..., end=...): the provider's rows from start
\* up to, not including, end.
yf_download(history, start, end) == {d \in history : d >= start /\ d < end}

\* The spans among the calendar's for which int(365 * (days / 365)) is
\* days - 1 in floating point (373 / 365 * 365 = 372.99999999999994).
LostDaySpans == {373}

\* years = max((end - start).days / 365, 1) in get_data, then
\* timedelta(days=int(365 * years)) in collect_data.
LookbackDays(start_date, end_date) ==
    LET days == end_date - start_date
    IN  IF days <= 365 THEN 365
        ELSE IF days \in LostDaySpans THEN days - 1 ELSE days

\* collect_data's download: from now - lookback to now.  Both carry the
\* time of day, so today's row is inside the window and the row of the
\* window's first day is inside it or not (first_day).
CollectorWindow(history, lookback, first_day) ==
    yf_download(history, (Today - lookback) + (IF first_day THEN 0 ELSE 1), Today + 1)

NoSpan == [cache |-> NoDated, history |-> {}, pc |-> "idle", start |-> 0, end |-> 0,
           calls |-> <<>>, up |-> TRUE, wrote |-> FALSE, before |-> NoDated,
           returned |-> NoDated]

\* ------------------------------------------- merging the per-symbol series
\* What the provider returned for each symbol, by value: the dates its
\* series covers (none: empty answer or exception, the symbol is skipped).
\* The close of symbol number i on date d is taken as 10 * i + d.
Coverages == [SymbolSet -> SUBSET (1..MaxRows)]

Close(i, d) == Cell(10 * i + d)

\* A DatetimeIndex as the provider returns it: ascending.
RECURSIVE SortedIndex(_)
SortedIndex(dates) ==
    IF dates = {} THEN <<>>
    ELSE LET first == CHOOSE d \in dates : \A e \in dates : d <= e
         IN  <<first>> \o SortedIndex(dates \ {first})

\* data_frames after the loop: the positions in the registry of the symbols
\* that returned rows, in registry order.
Retrieved(cover) ==
    SelectSeq([i \in 1..Len(get_symbols) |-> i], LAMBDA i : cover[get_symbols[i]] # {})

\* Series.ffill(): a missing cell takes the last value before it.
ffill(series) ==
    [k \in 1..Len(series) |->
       IF \E j \in 1..k : ~series[j].nan
       THEN series[CHOOSE j \in 1..k : ~series[j].nan /\ \A h \in (j + 1)..k : series[h].nan]
       ELSE NaN]

\* Series.bfill(): a missing cell takes the next value after it.
bfill(series) ==
    [k \in 1..Len(series) |->
       IF \E j \in k..Len(series) : ~series[j].nan
       THEN series[CHOOSE j \in k..Len(series) : ~series[j].nan /\ \A h \in k..(j - 1) : series[h].nan]
       ELSE NaN]

\* df = pd.DataFrame(); df[name] = series for each retrieved series: the
\* first assignment gives the frame its index, every later series is
\* aligned to that index (dates it lacks become NaN, dates only it has are
\* dropped).
FirstIndex(cover, got) ==
    IF got = <<>> THEN <<>> ELSE SortedIndex(cover[get_symbols[got[1]]])

\* Lines 88-95 of download_data and 105-112 of get_data: assemble, then
\* forward-fill and backward-fill.
MergeFilled(cover) ==
    LET got   == Retrieved(cover)
        index == FirstIndex(cover, got)
    IN  Frame([c \in 1..Len(got) |-> get_symbols[got[c]]], index,
              [c \in 1..Len(got) |->
                 bfill(ffill([k \in 1..Len(index) |->
                                IF index[k] \in cover[get_symbols[got[c]]]
                                THEN Close(got[c], index[k]) ELSE NaN]))])

VARIABLES
    files,      \* [raw, prep, meta]: data/bist_emtia_data.csv,
                \* data/bist_emtia_prepared_data.csv, data/metadata.pkl
    pc,         \* position of the running call
    op,         \* the entry point that is running or has just ended
    pre,        \* the files as they were when the call started
    calls,      \* strategies invoked by the running get_data, in order
    fetch,      \* the last per-symbol loop: provider answers, attempts, series
    result,     \* what the call handed to its caller
    data_files, \* the prepared-data files a training run can be pointed at
    models,     \* models/: current_model.pkl, bist_model.pkl, model_metadata.pkl
    trained,    \* the last training call: entry point, arguments' effect, return
    selection,  \* the grid search's loop: accuracies, position, best so far
    env,        \* what the dashboard finds besides the cache files: whether
                \* data/metadata.txt exists, the last two price rows, the
                \* scaler parameters fitted when the model's data was prepared
    page,       \* one run of the dashboard script
    feat,       \* the feature builder / lag analysis: the price table given,
                \* the call made on it and what it computed
    span        \* get_data by date: the cached dates, the provider's history,
                \* the requested range and the dates returned

acqVars == <<files, pc, op, pre, calls, fetch, result>>

trainVars == <<data_files, models, trained>>

dashVars == <<env, page>>

vars == <<files, pc, op, pre, calls, fetch, result, data_files, models, trained, selection,
          env, page, feat, span>>

NoFiles == [raw |-> None, prep |-> None, meta |-> None]

EmptyModels == [current_model |-> NoModel, bist_model |-> NoModel, model_metadata |-> NoMetadata]

NoTraining == [entry |-> "none", kind |-> "none", arity |-> 0, model |-> NoModel,
               accuracy |-> 0, success |-> FALSE, verbose |-> FALSE]

NoSelection == [accs |-> [c \in Candidates |-> 0], i |-> 0, best |-> NoBest]

AcqIdle ==
    /\ files = NoFiles
    /\ pc = "idle"
    /\ op = "none"
    /\ pre = NoFiles
    /\ calls = <<>>
    /\ fetch = [ran |-> "none", o |-> [s \in SymbolSet |-> "empty"],
                attempts |-> <<>>, data_frames |-> <<>>, df |-> None]
    /\ result = [kind |-> "pending", why |-> "", df |-> None]

RegistrySet == {Registry[i] : i \in 1..Len(Registry)}

NoPage == [pc |-> "start", raw_data |-> None, prepared_data |-> None, model |-> NoModel,
           lag |-> "none", features |-> <<>>, missing_features |-> <<>>,
           passed |-> <<>>, predict_raised |-> FALSE, prediction |-> -1, shown |-> {}]

DashIdle ==
    /\ env = [metadata_txt |-> FALSE, prev |-> [c \in RegistrySet |-> 100],
              last |-> [c \in RegistrySet |-> 100], scaler |-> [mean |-> 0, std |-> 1]]
    /\ page = NoPage

TrainIdle ==
    /\ data_files = [f \in DataFileNames |-> None]
    /\ models = EmptyModels
    /\ trained = NoTraining

NoFeat == [df |-> Frame(<<>>, <<>>, <<>>), op |-> "none", use_lags |-> FALSE, lag_days |-> <<>>,
           change |-> Frame(<<>>, <<>>, <<>>), lagged |-> Frame(<<>>, <<>>, <<>>),
           prepared |-> NoPrepared, analysis |-> NoAnalysis]

NoFetch == [ran |-> "none", o |-> [s \in SymbolSet |-> "empty"],
            attempts |-> <<>>, data_frames |-> <<>>, df |-> None]

Pending == [kind |-> "pending", why |-> "", df |-> None]

Fetched(name, o, dl) ==
    [ran |-> name, o |-> o, attempts |-> dl.attempts,
     data_frames |-> dl.data_frames, df |-> dl.df]

Call(strategy, produced, got) ==
    [strategy |-> strategy, produced |-> produced, got |-> got]

InitAcq ==
    /\ AcqIdle
    /\ TrainIdle
    /\ DashIdle
    /\ selection = NoSelection
    /\ feat = NoFeat
    /\ span = NoSpan

\* get_data, lines 33-41: the cached file, when it exists, is the answer.
GetDataCache ==
    /\ pc = "idle"
    /\ op' = "get_data"
    /\ pre' = files
    /\ calls' = <<Call("cache", files.raw.some, files.raw.cols)>>
    /\ pc' = AfterCache(files.raw.some)
    /\ IF files.raw.some
       THEN \E t \in DateFiltered(files.raw) : result' = [kind |-> "table", why |-> "", df |-> t]
       ELSE result' = Pending
    /\ UNCHANGED <<files, fetch>>
    /\ UNCHANGED <<trainVars, selection, feat, span, dashVars>>

\* get_data, lines 44-70: collect_data(years, save=True); a None table or
\* any exception sends the call to the fallback.
GetDataCollector ==
    /\ pc = "collector"
    /\ \E o \in ProviderAnswers, n \in 1..MaxRows :
         LET c == collect_data(files, o, n, TRUE)
         IN  /\ files' = c.files
             /\ fetch' = Fetched("download_data", o, c.dl)
             /\ calls' = Append(calls, Call("collector", c.kind = "ok", c.dl.data_frames))
             /\ pc' = AfterCollector(c.kind)
             /\ IF c.kind = "ok"
                THEN \E t \in DateFiltered(c.df) : result' = [kind |-> "table", why |-> "", df |-> t]
                ELSE result' = Pending
    /\ UNCHANGED <<op, pre>>
    /\ UNCHANGED <<trainVars, selection, feat, span, dashVars>>

\* get_data, lines 74-85: download_data(start_date, end_date), saved with
\* save_raw_data when it is a table.
GetDataDownload ==
    /\ pc = "download"
    /\ \E o \in ProviderAnswers, n \in 1..MaxRows :
         LET dl == download_data(o, n)
         IN  /\ fetch' = Fetched("download_data", o, dl)
             /\ calls' = Append(calls, Call("download_data", dl.df.some, dl.data_frames))
             /\ pc' = AfterDownload(dl.df)
             /\ IF dl.df.some
                THEN /\ files' = [files EXCEPT !.raw = dl.df]
                     /\ result' = [kind |-> "table", why |-> "", df |-> dl.df]
                ELSE /\ files' = files
                     /\ result' = Pending
    /\ UNCHANGED <<op, pre>>
    /\ UNCHANGED <<trainVars, selection, feat, span, dashVars>>

\* get_data, lines 86-120: the inline loop; its DataFrame is written to the
\* cache file and returned whatever it holds.
GetDataInline ==
    /\ pc = "inline"
    /\ \E o \in ProviderAnswers, n \in 1..MaxRows :
         LET dl == InlineDownload(o, n)
         IN  /\ fetch' = Fetched("inline", o, dl)
             /\ calls' = Append(calls, Call("inline", TRUE, dl.data_frames))
             /\ files' = [files EXCEPT !.raw = dl.df]
             /\ result' = [kind |-> "table", why |-> "", df |-> dl.df]
    /\ pc' = "done"
    /\ UNCHANGED <<op, pre>>
    /\ UNCHANGED <<trainVars, selection, feat, span, dashVars>>

\* collect_data called directly (the collector script's main, or any caller).
CollectData ==
    /\ pc = "idle"
    /\ \E o \in ProviderAnswers, n \in 1..MaxRows, save \in BOOLEAN :
         LET c == collect_data(files, o, n, save)
         IN  /\ files' = c.files
             /\ fetch' = Fetched("download_data", o, c.dl)
             /\ result' = [kind |-> c.kind, why |-> c.why, df |-> c.df]
             /\ op' = IF save THEN "collect_data" ELSE "collect_data(save=False)"
    /\ pre' = files
    /\ pc' = "done"
    /\ UNCHANGED calls
    /\ UNCHANGED <<trainVars, selection, feat, span, dashVars>>

\* The caller takes the result; the next call starts from the files left.
Return ==
    /\ pc = "done"
    /\ pc' = "idle"
    /\ op' = "none"
    /\ pre' = NoFiles
    /\ calls' = <<>>
    /\ fetch' = NoFetch
    /\ result' = Pending
    /\ UNCHANGED files
    /\ UNCHANGED <<trainVars, selection, feat, span, dashVars>>

NextAcq ==
    \/ GetDataCache
    \/ GetDataCollector
    \/ GetDataDownload
    \/ GetDataInline
    \/ CollectData
    \/ Return

SpecAcq == InitAcq /\ [][NextAcq]_vars

\* ------------------------------------------------------ training runs
\* The prepared-data files found on disk when training starts: the
\* collector's file (all seven series or the four the dashboard shows, long
\* or too short for five folds) and a file prepared elsewhere.
CoreSeries == SubSeq(Registry, 1, 4)

CollectorFiles ==
    {None, Prepared(ChangeCols(Registry), 10), Prepared(ChangeCols(CoreSeries), 3)}

CustomFiles == {Prepared(<<"Gold", "VIX">>, 10)}

InitTrain ==
    /\ AcqIdle
    /\ \E d \in CollectorFiles, c \in CustomFiles :
         data_files = [f \in DataFileNames |->
                         IF f = "data/bist_emtia_prepared_data.csv" THEN d ELSE c]
    /\ models = EmptyModels
    /\ trained = NoTraining
    /\ selection = NoSelection
    /\ DashIdle
    /\ feat = NoFeat
    /\ span = NoSpan

TrainAndEvaluate ==
    /\ trained.entry = "none"
    /\ \E f \in DataFileNames, name \in ModelNames, a \in AccLevels :
         LET r == train_and_evaluate_model(models, data_files[f], name, a)
         IN  /\ models' = r.dir
             /\ trained' = [entry |-> "train_and_evaluate_model", kind |-> r.kind,
                            arity |-> r.arity, model |-> r.model, accuracy |-> r.accuracy,
                            success |-> r.success, verbose |-> TRUE]
    /\ UNCHANGED <<data_files, acqVars, selection, feat, span, dashVars>>

TrainWithDifferentParams ==
    /\ trained.entry = "none"
    /\ \E f \in DataFileNames, verbose \in BOOLEAN, accs \in GridRuns :
         LET r == train_with_different_params(models, data_files[f], verbose, accs)
         IN  /\ models' = r.dir
             /\ trained' = [entry |-> "train_with_different_params", kind |-> r.kind,
                            arity |-> r.arity, model |-> r.model, accuracy |-> r.accuracy,
                            success |-> r.success, verbose |-> verbose]
    /\ UNCHANGED <<data_files, acqVars, selection, feat, span, dashVars>>

\* The caller takes the returned tuple (or the exception); the next training
\* run starts from the model directory left behind.
TrainReturn ==
    /\ trained.entry # "none"
    /\ trained' = NoTraining
    /\ UNCHANGED <<data_files, models, acqVars, selection, feat, span, dashVars>>

NextTrain ==
    \/ TrainAndEvaluate
    \/ TrainWithDifferentParams
    \/ TrainReturn

SpecTrain == InitTrain /\ [][NextTrain]_vars

\* ------------------------------------------- the grid search's loop alone
InitSelect ==
    /\ AcqIdle
    /\ TrainIdle
    /\ DashIdle
    /\ \E accs \in AccuracyRuns : selection = [accs |-> accs, i |-> 1, best |-> NoBest]
    /\ feat = NoFeat
    /\ span = NoSpan

\* One iteration: train candidate i, evaluate it, keep it if better.
TryCandidate ==
    /\ selection.i \in Candidates
    /\ selection' = [selection EXCEPT
                       !.best = Consider(selection.best, selection.i, selection.accs[selection.i]),
                       !.i = selection.i + 1]
    /\ UNCHANGED <<acqVars, trainVars, dashVars, feat, span>>

NextSelect == TryCandidate

SpecSelect == InitSelect /\ [][NextSelect]_vars


\* --------------------------------------------------------- the dashboard
\* What a dashboard run can find on disk.  Price tables as the collector
\* leaves them: every series, the four the page shows by name, a table
\* without those, one or two rows, the target alone, no target; the
\* prepared file next to each.  A model and a metadata file as the
\* training runs leave them.
PartialSeries == SubSeq(Registry, 1, 2)

DashPriceTables ==
    {None, Table(Registry, 10), Table(CoreSeries, 10), Table(PartialSeries, 10),
     Table(Registry, 1), Table(Registry, 2), Table(<<"BIST100">>, 10),
     Table(<<"Gold", "Oil">>, 10)}

FeatureLists == {ChangeCols(Registry), ChangeCols(CoreSeries), <<"Gold", "VIX">>}

DashModels == {NoModel} \cup {Model(f, p) : f \in FeatureLists, p \in {0, 1}}

DashMetadata == {NoMetadata} \cup {save_model_metadata(f, 12, 10) : f \in FeatureLists}

LastRows ==
    {[prev |-> [c \in RegistrySet |-> 100],
      last |-> [c \in RegistrySet |-> 100 + ColumnIndex(Registry, c)]],
     [prev |-> [c \in RegistrySet |-> 50],
      last |-> [c \in RegistrySet |-> 48 + ColumnIndex(Registry, c)]]}

ScalerFits == {[mean |-> 0, std |-> 1], [mean |-> 1, std |-> 2]}

PreparedFor(raw) ==
    IF raw.some /\ raw.rows > 2
    THEN {None, Prepared(ChangeCols(raw.cols), raw.rows - 2)}
    ELSE {None}

InitDash ==
    /\ pc = "idle"
    /\ op = "none"
    /\ pre = NoFiles
    /\ calls = <<>>
    /\ fetch = [ran |-> "none", o |-> [s \in SymbolSet |-> "empty"],
                attempts |-> <<>>, data_frames |-> <<>>, df |-> None]
    /\ result = [kind |-> "pending", why |-> "", df |-> None]
    /\ data_files = [f \in DataFileNames |-> None]
    /\ trained = NoTraining
    /\ selection = NoSelection
    /\ \E raw \in DashPriceTables :
         \E prep \in PreparedFor(raw) \cup {Prepared(ChangeCols(Registry), 8)} :
           files = [raw |-> raw, prep |-> prep, meta |-> raw]
    /\ \E m \in DashModels, md \in DashMetadata :
         models = [current_model |-> NoModel, bist_model |-> m, model_metadata |-> md]
    /\ \E txt \in BOOLEAN, rows \in LastRows, fit \in ScalerFits :
         env = [metadata_txt |-> txt, prev |-> rows.prev, last |-> rows.last, scaler |-> fit]
    /\ page = NoPage
    /\ feat = NoFeat
    /\ span = NoSpan

\* app.py lines 85-94: load the data and the model, run the lag analysis,
\* and choose between the tabs and the "no data" message.
PageLoad ==
    /\ page.pc = "start"
    /\ LET d == load_prepared_data(files, env.metadata_txt)
           usable == d.raw_data.some /\ d.raw_data.rows > 0 /\ d.raw_data.cols # <<>>
           la == IF d.raw_data.some THEN get_lag_analysis(d.raw_data)
                 ELSE [escaped |-> FALSE, lag |-> "none", shown |-> {}]
       IN  page' = [page EXCEPT
                      !.raw_data = d.raw_data,
                      !.prepared_data = d.prepared_data,
                      !.model = load_trained_model(models),
                      !.lag = la.lag,
                      !.shown = (IF d.error THEN {"load_error"} ELSE {})
                                \cup la.shown
                                \cup (IF usable \/ la.escaped THEN {} ELSE {"no_data"}),
                      !.pc = IF la.escaped THEN "crashed"
                             ELSE IF usable THEN "tab1" ELSE "footer"]
    /\ UNCHANGED <<acqVars, trainVars, selection, feat, span, env>>

\* app.py lines 99-133: the market-data tab; its first chart needs the
\* BIST100 column.
Tab1Market ==
    /\ page.pc = "tab1"
    /\ page' = IF MarketRaises(page.raw_data) THEN [page EXCEPT !.pc = "crashed"]
               ELSE [page EXCEPT !.shown = @ \cup {"market_data"}, !.pc = "tab2"]
    /\ UNCHANGED <<acqVars, trainVars, selection, feat, span, env>>

\* app.py lines 136-175: without a model the tab stays empty; with one, the
\* four metrics are read by column name from the last change row.
Tab2Metrics ==
    /\ page.pc = "tab2"
    /\ page' = IF ~page.model.some THEN [page EXCEPT !.pc = "tab3"]
               ELSE IF MetricsRaise(page.raw_data) THEN [page EXCEPT !.pc = "crashed"]
               ELSE [page EXCEPT !.shown = @ \cup {"metrics"}, !.pc = "features"]
    /\ UNCHANGED <<acqVars, trainVars, selection, feat, span, env>>

\* app.py lines 177-209: build the feature vector.
Tab2Features ==
    /\ page.pc = "features"
    /\ LET names == StoredFeatureNames(models)
           feats == ServedFeatures(page.raw_data, env, models)
       IN  page' = [page EXCEPT
                      !.features = feats,
                      !.missing_features = IF names # <<>>
                                           THEN MissingFeatures(page.raw_data, names)
                                           ELSE <<>>,
                      !.shown = @ \cup (IF names = <<>> THEN {"no_metadata_warning"} ELSE {}),
                      !.pc = "predict"]
    /\ UNCHANGED <<acqVars, trainVars, selection, feat, span, env>>

\* app.py lines 211-252: predict inside try/except.
Tab2Predict ==
    /\ page.pc = "predict"
    /\ LET passed == PassedToModel(env.scaler, page.features)
           raised == PredictRaises(page.model, passed)
           step   == PredictionStep(raised)
       IN  \E label \in {0, 1} :
             page' = [page EXCEPT
                        !.passed = passed,
                        !.predict_raised = raised,
                        !.prediction = IF raised THEN -1 ELSE label,
                        !.shown = @ \cup step.shown,
                        !.pc = step.pc]
    /\ UNCHANGED <<acqVars, trainVars, selection, feat, span, env>>

\* app.py lines 254-267: the past-performance section.
Tab2Performance ==
    /\ page.pc = "performance"
    /\ page' = [page EXCEPT
                  !.shown = @ \cup {"past_performance"}
                            \cup (IF page.prepared_data.some /\ Has(page.prepared_data.cols, "target")
                                  THEN {"recent_predictions"} ELSE {}),
                  !.pc = "tab3"]
    /\ UNCHANGED <<acqVars, trainVars, selection, feat, span, env>>

\* app.py lines 271-379: the global-variables tab; the lag charts need the
\* lag analysis, an error message replaces them otherwise.
Tab3Global ==
    /\ page.pc = "tab3"
    /\ page' = [page EXCEPT
                  !.shown = @ \cup {"global_variables", "rolling_correlation"}
                            \cup (IF page.lag = "ok" THEN {"lag_charts"} ELSE {"lag_unavailable"}),
                  !.pc = "footer"]
    /\ UNCHANGED <<acqVars, trainVars, selection, feat, span, env>>

\* app.py lines 385-395.
Footer ==
    /\ page.pc = "footer"
    /\ page' = [page EXCEPT !.shown = @ \cup {"footer"}, !.pc = "shown"]
    /\ UNCHANGED <<acqVars, trainVars, selection, feat, span, env>>

\* Any interaction reruns the script from the top.
Rerun ==
    /\ page.pc \in {"shown", "crashed"}
    /\ page' = NoPage
    /\ UNCHANGED <<acqVars, trainVars, selection, feat, span, env>>

NextDash ==
    \/ PageLoad
    \/ Tab1Market
    \/ Tab2Metrics
    \/ Tab2Features
    \/ Tab2Predict
    \/ Tab2Performance
    \/ Tab3Global
    \/ Footer
    \/ Rerun

SpecDash == InitDash /\ [][NextDash]_vars

\* ------------------------------------------------------------ claims C1-C4
StrategyOrder == <<"cache", "collector", "download_data", "inline">>

\* C1: get_data invokes its strategies in the order cached file, collector,
\* per-symbol download (download_data, then the inline loop); a strategy is
\* invoked only after every earlier one failed to produce a table, and the
\* call ends with the first strategy that produces one.
C1_StrategiesInStrictOrder ==
    op = "get_data" =>
        /\ Len(calls) \in 1..Len(StrategyOrder)
        /\ \A i \in 1..Len(calls) : calls[i].strategy = StrategyOrder[i]
        /\ \A i \in 1..(Len(calls) - 1) : ~calls[i].produced
        /\ calls[Len(calls)].produced <=> pc = "done"

C1_Witness ==
    /\ op = "get_data"
    /\ pc = "done"
    /\ Len(calls) = 3
    /\ calls[2].got # <<>>
    /\ calls[3].produced

GaveData(s) == fetch.o[s] = "ok"

\* C2: a per-symbol download attempts every symbol of the registry exactly
\* once, in registry order, whatever earlier symbols answered; its table has
\* one column for exactly the symbols that returned data, and an exception
\* or empty answer of one symbol never fails the download.
C2_EverySymbolAttemptedOnce ==
    fetch.ran # "none" =>
        /\ fetch.attempts = get_symbols
        /\ fetch.data_frames = SelectSeq(get_symbols, GaveData)
        /\ fetch.df.cols = SelectSeq(get_symbols, GaveData)
        /\ fetch.df.some <=> (fetch.ran = "inline" \/ \E s \in SymbolSet : GaveData(s))

C2_Witness ==
    /\ fetch.ran = "inline"
    /\ fetch.o[get_symbols[1]] = "exc"
    /\ fetch.o[get_symbols[2]] = "empty"
    /\ fetch.o[get_symbols[3]] = "ok"
    /\ fetch.df = Table(<<get_symbols[3]>>, fetch.df.rows)

EmptySignal(r) == r.kind = "table" /\ r.df.cols = <<>>

NothingRetrieved == \A i \in 1..Len(calls) : calls[i].got = <<>>

\* C3: without a cached file, get_data hands back the empty-result signal
\* (a table without columns) if and only if no strategy of the call
\* retrieved any symbol.
C3_EmptyIffNothingRetrievable ==
    (op = "get_data" /\ pc = "done" /\ ~pre.raw.some) =>
        (EmptySignal(result) <=> NothingRetrieved)

Unrecoverable ==
    \/ /\ op \in {"collect_data", "collect_data(save=False)"}
       /\ result.kind \in {"none", "raised"}
       /\ result.why \in {"zero_symbols", "target_missing", "empty_aligned"}
    \/ /\ op = "get_data"
       /\ Len(calls) > 1
       /\ EmptySignal(result)

\* C4: a refresh that ends in an unrecoverable condition (zero symbols,
\* target column missing, empty aligned dataset) leaves the raw price file,
\* the prepared file and the metadata file exactly as they were.
C4_FailedRefreshWritesNothing ==
    (pc = "done" /\ Unrecoverable) => files = pre

\* ----------------------------------- the feature builder and lag analysis
\* The price tables the feature builder is given: with and without the
\* target column, one to three series, zero to MaxDates consecutive trading
\* days.  BIST100 follows one price path, Gold another, Oil Gold's reversed.
FeatColumns ==
    {<<"BIST100">>, <<"BIST100", "Gold">>, <<"Gold", "BIST100", "Oil">>, <<"Gold", "Oil">>}

PriceFrame(cols, n, s, t) ==
    Frame(cols, [k \in 1..n |-> k],
          [c \in 1..Len(cols) |->
             [k \in 1..n |->
                Cell(IF cols[c] = "BIST100" THEN s[k]
                     ELSE IF cols[c] = "Gold" THEN t[k] ELSE t[n + 1 - k])]])

PriceFrames ==
    UNION {{PriceFrame(cols, n, s, t) : cols \in FeatColumns,
                                        s \in [1..n -> Prices], t \in [1..n -> Prices]}
           : n \in 0..MaxDates}

\* Lag lists: the default and shorter ones that a table of a few days can
\* satisfy.
LagConfigs == {<<1>>, <<2>>, <<1, 2>>, <<2, 1>>, <<1, 10, 30>>}

InitFeat ==
    /\ AcqIdle
    /\ TrainIdle
    /\ DashIdle
    /\ selection = NoSelection
    /\ \E df \in PriceFrames : feat = [NoFeat EXCEPT !.df = df]
    /\ span = NoSpan

\* add_lag_features called on the change table of the price table.
AddLagFeatures ==
    /\ feat.op = "none"
    /\ \E lag_days \in LagConfigs :
         LET change == RenamedChange(dropna(pct_change(feat.df)))
         IN  feat' = [feat EXCEPT !.op = "add_lag_features", !.lag_days = lag_days,
                                  !.use_lags = TRUE, !.change = change,
                                  !.lagged = add_lag_features(change, lag_days)]
    /\ UNCHANGED <<acqVars, trainVars, selection, dashVars, span>>

PrepareData ==
    /\ feat.op = "none"
    /\ \E use_lags \in BOOLEAN, lag_days \in LagConfigs :
         feat' = [feat EXCEPT !.op = "prepare_data", !.use_lags = use_lags,
                              !.lag_days = lag_days,
                              !.change = RenamedChange(dropna(pct_change(feat.df))),
                              !.prepared = prepare_data(feat.df, use_lags, lag_days)]
    /\ UNCHANGED <<acqVars, trainVars, selection, dashVars, span>>

PrepareTrainingData ==
    /\ feat.op = "none"
    /\ feat' = [feat EXCEPT !.op = "prepare_training_data",
                            !.change = RenamedChange(dropna(pct_change(feat.df))),
                            !.prepared = prepare_training_data_values(feat.df)]
    /\ UNCHANGED <<acqVars, trainVars, selection, dashVars, span>>

AnalyzeLagImportance ==
    /\ feat.op = "none"
    /\ feat' = [feat EXCEPT !.op = "analyze_lag_importance",
                            !.analysis = analyze_lag_importance(feat.df, "BIST100")]
    /\ UNCHANGED <<acqVars, trainVars, selection, dashVars, span>>

\* The call returns (or its exception leaves it); the table is unchanged.
FeatReturn ==
    /\ feat.op # "none"
    /\ feat' = [NoFeat EXCEPT !.df = feat.df]
    /\ UNCHANGED <<acqVars, trainVars, selection, dashVars, span>>

NextFeat ==
    \/ AddLagFeatures
    \/ PrepareData
    \/ PrepareTrainingData
    \/ AnalyzeLagImportance
    \/ FeatReturn

SpecFeat == InitFeat /\ [][NextFeat]_vars

\* ------------------------------------------------------ get_data by date
\* The provider's history and the cache file found when the first request
\* arrives (absent, or rows of that history saved by an earlier run); each
\* get_data call asks for a range between two trading days.
InitRange ==
    /\ AcqIdle
    /\ TrainIdle
    /\ DashIdle
    /\ selection = NoSelection
    /\ feat = NoFeat
    /\ \E history \in SUBSET Days :
         \E cache \in {NoDated} \cup {Dated(c) : c \in SUBSET history} :
           span = [NoSpan EXCEPT !.history = history, !.cache = cache]

\* Lines 33-41: the cached file, filtered to the requested range.
RangeCache ==
    /\ span.pc = "idle"
    /\ \E start_date \in Days, end_date \in Days :
         /\ start_date <= end_date
         /\ span' = [span EXCEPT
                       !.start = start_date, !.end = end_date,
                       !.calls = <<"cache">>, !.before = span.cache,
                       !.returned = IF span.cache.some
                                    THEN Dated(FilterByDate(span.cache.dates, start_date, end_date))
                                    ELSE NoDated,
                       !.pc = IF span.cache.some THEN "done" ELSE "collector"]
    /\ UNCHANGED <<acqVars, trainVars, selection, dashVars, feat>>

\* Lines 44-70: collect_data(years, save=True).  Its window ends today and
\* is as long as the requested range (a year at least); the raw file is
\* saved before the preparation, which raises on fewer than three rows or
\* without the BIST100 series.
RangeCollector ==
    /\ span.pc = "collector"
    /\ \E up \in BOOLEAN, first_day \in BOOLEAN, target \in BOOLEAN :
         LET df == IF up
                   THEN CollectorWindow(span.history, LookbackDays(span.start, span.end), first_day)
                   ELSE {}
             prepared == target /\ AlignedRows(Cardinality(df)) > 0
         IN  span' = [span EXCEPT
                        !.calls = Append(@, "collector"),
                        !.up = @ /\ up,
                        !.cache = IF df = {} THEN @ ELSE Dated(df),
                        !.wrote = @ \/ df # {},
                        !.returned = IF df # {} /\ prepared
                                     THEN Dated(FilterByDate(df, span.start, span.end))
                                     ELSE NoDated,
                        !.pc = IF df # {} /\ prepared THEN "done" ELSE "download"]
    /\ UNCHANGED <<acqVars, trainVars, selection, dashVars, feat>>

\* Lines 74-85: download_data(start_date, end_date), saved and returned
\* unfiltered when any series came back.
RangeDownload ==
    /\ span.pc = "download"
    /\ \E up \in BOOLEAN :
         LET df == IF up THEN yf_download(span.history, span.start, span.end) ELSE {}
         IN  span' = [span EXCEPT
                        !.calls = Append(@, "download_data"),
                        !.up = @ /\ up,
                        !.cache = IF df = {} THEN @ ELSE Dated(df),
                        !.wrote = @ \/ df # {},
                        !.returned = IF df = {} THEN NoDated ELSE Dated(df),
                        !.pc = IF df = {} THEN "inline" ELSE "done"]
    /\ UNCHANGED <<acqVars, trainVars, selection, dashVars, feat>>

\* Lines 86-120: the inline loop; whatever it built is written and returned.
RangeInline ==
    /\ span.pc = "inline"
    /\ \E up \in BOOLEAN :
         LET df == IF up THEN yf_download(span.history, span.start, span.end) ELSE {}
         IN  span' = [span EXCEPT
                        !.calls = Append(@, "inline"),
                        !.up = @ /\ up,
                        !.cache = Dated(df),
                        !.wrote = TRUE,
                        !.returned = Dated(df),
                        !.pc = "done"]
    /\ UNCHANGED <<acqVars, trainVars, selection, dashVars, feat>>

\* The caller takes the table; the cache file stays for the next request.
RangeReturn ==
    /\ span.pc = "done"
    /\ span' = [NoSpan EXCEPT !.history = span.history, !.cache = span.cache]
    /\ UNCHANGED <<acqVars, trainVars, selection, dashVars, feat>>

NextRange ==
    \/ RangeCache
    \/ RangeCollector
    \/ RangeDownload
    \/ RangeInline
    \/ RangeReturn

SpecRange == InitRange /\ [][NextRange]_vars

\* --------------------------------------------- the merged download, by value
InitMerge ==
    /\ AcqIdle
    /\ TrainIdle
    /\ DashIdle
    /\ selection = NoSelection
    /\ feat = NoFeat
    /\ span = NoSpan

\* download_data, lines 83-97: None without any series, else the filled
\* frame.
MergeDownload ==
    /\ feat.op = "none"
    /\ \E cover \in Coverages :
         feat' = [NoFeat EXCEPT
                    !.op = IF Retrieved(cover) = <<>> THEN "download_data: None" ELSE "download_data",
                    !.df = MergeFilled(cover)]
    /\ UNCHANGED <<acqVars, trainVars, selection, dashVars, span>>

\* get_data's inline fallback, lines 104-112: the same assembly; an empty
\* DataFrame without any series.
MergeInline ==
    /\ feat.op = "none"
    /\ \E cover \in Coverages :
         feat' = [NoFeat EXCEPT !.op = "inline", !.df = MergeFilled(cover)]
    /\ UNCHANGED <<acqVars, trainVars, selection, dashVars, span>>

MergeReturn ==
    /\ feat.op # "none"
    /\ feat' = NoFeat
    /\ UNCHANGED <<acqVars, trainVars, selection, dashVars, span>>

NextMerge ==
    \/ MergeDownload
    \/ MergeInline
    \/ MergeReturn

SpecMerge == InitMerge /\ [][NextMerge]_vars

\* ------------------------------------- the collector, then the dashboard
\* An empty data directory: the collector runs (any number of times), the
\* dashboard script runs between its calls.  Nothing in the repository
\* writes data/metadata.txt, so load_prepared_data fails on every run and
\* the script goes from the load straight to its closing message.
InitPipeline ==
    /\ AcqIdle
    /\ TrainIdle
    /\ DashIdle
    /\ selection = NoSelection
    /\ feat = NoFeat
    /\ span = NoSpan

\* The collector script runs while no page is being rendered, and the page
\* is rendered while no collector call is running.
CollectorRuns == page.pc = "start" /\ CollectData

CollectorReturns == page.pc = "start" /\ Return

DashboardLoads == pc = "idle" /\ PageLoad

DashboardCloses == pc = "idle" /\ Footer

DashboardReruns == pc = "idle" /\ Rerun

NextPipeline ==
    \/ CollectorRuns
    \/ CollectorReturns
    \/ DashboardLoads
    \/ DashboardCloses
    \/ DashboardReruns

SpecPipeline == InitPipeline /\ [][NextPipeline]_vars

\* ----------------------------------------------------------- claims C5-C10
\* C5: after any sequence of training runs, the metadata file the dashboard
\* loads lists exactly the ordered columns the model file the dashboard
\* loads was trained on.
C5_MetadataDescribesServedModel ==
    (models.bist_model.some /\ models.model_metadata.some) =>
        models.model_metadata.feature_names = models.bist_model.cols

FeaturesBuilt == "metrics" \in page.shown /\ page.pc # "features"

PriceColumns == {page.raw_data.cols[i] : i \in 1..Len(page.raw_data.cols)}

LatestChange(series) == PctChange100(env.prev[series], env.last[series])

\* C6: with a stored feature-name list F, the served vector has length |F|
\* and holds at position i the change of F[i] when F[i] is a column of the
\* change row and 0 otherwise; an absent stored feature never makes the
\* page fail.
C6_ServedVectorFollowsStoredNames ==
    LET F == StoredFeatureNames(models)
    IN  /\ (FeaturesBuilt /\ F # <<>>) =>
              /\ Len(page.features) = Len(F)
              /\ \A i \in 1..Len(F) :
                    page.features[i] = IF F[i] \in PriceColumns THEN LatestChange(F[i]) ELSE 0
        /\ page.pc = "crashed" => "metrics" \notin page.shown

C6_Witness ==
    /\ FeaturesBuilt
    /\ StoredFeatureNames(models) = <<"Gold", "VIX">>
    /\ page.missing_features = <<"VIX">>
    /\ page.features = <<2, 0>>

\* C7: every stored feature '<series>_change' whose series is a column of
\* the served price table receives that series' latest day-over-day change
\* and is not zero-filled.
C7_StoredChangeFeaturesAreServed ==
    LET F == StoredFeatureNames(models)
    IN  (FeaturesBuilt /\ F # <<>>) =>
            \A i \in 1..Len(F) : \A series \in PriceColumns :
                F[i] = ChangeName(series) =>
                    /\ page.features[i] = LatestChange(series)
                    /\ ~Has(page.missing_features, F[i])

\* The vector the claim expects: every entry transformed with the fitted
\* parameters.
PassedStandardized(fit, features) ==
    [i \in 1..Len(features) |-> Standardize(fit, features[i])]

PredictRan == "metrics" \in page.shown /\ page.pc \in {"performance", "tab3", "footer", "shown"}

\* C8: the vector handed to the model at serving has been transformed with
\* the scaling parameters fitted when the training data was prepared.
C8_ServedVectorIsStandardized ==
    PredictRan => page.passed = PassedStandardized(env.scaler, page.features)

\* C9: a prediction the model cannot produce is caught in the prediction
\* step and shown as a message; the script does not crash and the rest of
\* the page (past performance, the other tabs, the footer) is rendered.
C9_PredictionFailureIsCaught ==
    page.predict_raised =>
        /\ page.pc # "crashed"
        /\ {"prediction_error", "market_data", "metrics"} \subseteq page.shown
        /\ page.pc \in {"tab3", "footer", "shown"} => "past_performance" \in page.shown
        /\ page.pc \in {"footer", "shown"} => "global_variables" \in page.shown
        /\ page.pc = "shown" => "footer" \in page.shown

C9_Witness ==
    /\ page.predict_raised
    /\ page.pc = "shown"
    /\ Len(page.passed) # Len(page.model.cols)
    /\ {"prediction_error", "past_performance", "global_variables"} \subseteq page.shown

SelectionDone == selection.i = Len(param_combinations) + 1

EarliestMaximum(accs) ==
    CHOOSE i \in Candidates :
        /\ \A j \in Candidates : accs[j] <= accs[i]
        /\ \A j \in 1..(i - 1) : accs[j] < accs[i]

\* C10: for every sequence of the five candidates' accuracies the search
\* retains the candidate with the maximum accuracy, the earliest one among
\* those tied at the maximum.
C10_RetainsEarliestMaximum ==
    SelectionDone =>
        /\ selection.best.index = EarliestMaximum(selection.accs)
        /\ selection.best.accuracy = selection.accs[EarliestMaximum(selection.accs)]

\* ---------------------------------------------------------- claims C11-C20
\* C11: a training run that loaded its data, trained a model and returned
\* has left the selected model in a model file, whatever its accuracy and
\* whatever the arguments.
C11_TrainedModelIsPersisted ==
    (trained.entry # "none" /\ trained.kind = "returned" /\ trained.model.some) =>
        \E name \in ModelNames : models[name] = trained.model

\* C12: a step that writes a model file writes, in the same run, a metadata
\* record holding that model's ordered feature names and its accuracy.
ModelFileWritten(name) ==
    /\ trained.entry = "none"
    /\ trained'.entry # "none"
    /\ models'[name] # models[name]

C12_ModelWrittenWithItsMetadata ==
    [][\A name \in ModelNames :
         ModelFileWritten(name) =>
            /\ models'.model_metadata.some
            /\ models'.model_metadata.feature_names = models'[name].cols
            /\ models'.model_metadata.accuracy = trained'.accuracy]_vars

\* Helpers for C13-C18: the price table the call was given, read directly.
FeatDates == DateSet(feat.df.index)

LastDate == IF FeatDates = {} THEN 0 ELSE CHOOSE d \in FeatDates : \A e \in FeatDates : e <= d

TargetPrice(d) == feat.df.data[ColumnIndex(feat.df.cols, "BIST100")][RowOf(feat.df.index, d)].v

LabelsComputed ==
    /\ feat.op \in {"prepare_data", "prepare_training_data"}
    /\ Has(feat.df.cols, "BIST100")

\* C13: the labels exist for exactly the dates other than the last, and the
\* label at d is 1 iff the target price on the next row is strictly greater;
\* the labels returned with the features are those of their dates.
C13_LabelIsStrictNextDayRise ==
    LabelsComputed =>
        LET labels == feat.prepared.labels
        IN  /\ DateSet(labels.index) = FeatDates \ {LastDate}
            /\ Len(labels.target) = Len(labels.index)
            /\ \A k \in 1..Len(labels.index) :
                 (labels.target[k] = 1) <=>
                     TargetPrice(labels.index[k] + 1) > TargetPrice(labels.index[k])
            /\ \A k \in 1..Len(labels.index) : labels.target[k] \in {0, 1}
            /\ \A j \in 1..Len(feat.prepared.clean_idx) :
                 (feat.prepared.y[j] = 1) <=>
                     TargetPrice(feat.prepared.clean_idx[j] + 1) > TargetPrice(feat.prepared.clean_idx[j])

\* A table whose target rises once, stays equal once and falls once.
C13_Witness ==
    /\ LabelsComputed
    /\ feat.op = "prepare_data"
    /\ Len(feat.df.index) = 4
    /\ feat.prepared.labels.target = <<1, 0, 0>>
    /\ TargetPrice(2) = TargetPrice(3)
    /\ TargetPrice(4) < TargetPrice(3)
    /\ feat.prepared.y # <<>>

Max(S) == CHOOSE m \in S : \A x \in S : x <= m

LagSet == DateSet(feat.lag_days)

LagsAdded == feat.op = "add_lag_features"

IsTargetColumn(col) == col = "BIST100_change"

Occurrences(cols, name) == Cardinality({i \in 1..Len(cols) : cols[i] = name})

LagCopies ==
    \A c \in 1..Len(feat.change.cols) : \A l \in LagSet :
        Occurrences(feat.lagged.cols, LagName(feat.change.cols[c], l)) =
            IF IsTargetColumn(feat.change.cols[c]) THEN 0 ELSE 1

\* C14 as stated: the lagged table has the change table's row count minus
\* max(L) rows; no BIST100 column is lagged, every other column once per lag.
C14_RowsShrinkByMaxLag ==
    LagsAdded =>
        /\ Len(feat.lagged.index) = Len(feat.change.index) - Max(LagSet)
        /\ LagCopies

\* C14 amended: the row count is the change table's minus max(L) but never
\* below zero, and unchanged when the table has no column to lag; the
\* lagged copies are as stated.
C14_RowsShrinkByMaxLagOrToZero ==
    LagsAdded =>
        LET n == Len(feat.change.index)
            lagless == \A c \in 1..Len(feat.change.cols) : IsTargetColumn(feat.change.cols[c])
        IN  /\ Len(feat.lagged.index) =
                  IF lagless THEN n
                  ELSE IF n > Max(LagSet) THEN n - Max(LagSet) ELSE 0
            /\ LagCopies
            /\ Len(feat.lagged.cols) =
                  Len(feat.change.cols)
                  + Cardinality({c \in 1..Len(feat.change.cols) : ~IsTargetColumn(feat.change.cols[c])})
                    * Cardinality(LagSet)

\* Two lags on a table long enough for both, with a target column that
\* stays unlagged next to a column that is lagged.
C14_Witness ==
    /\ LagsAdded
    /\ feat.lag_days = <<1, 2>>
    /\ feat.change.cols = <<"BIST100_change", "Gold_change">>
    /\ Len(feat.change.index) = 3
    /\ Len(feat.lagged.index) = 1
    /\ feat.lagged.cols = <<"BIST100_change", "Gold_change", "Gold_change_lag1", "Gold_change_lag2">>

ChangeComputed == feat.op \in {"prepare_data", "prepare_training_data", "add_lag_features"}

ChangeTableShape(rows) ==
    /\ Len(feat.change.index) = rows
    /\ Len(feat.change.cols) = Len(feat.df.cols)
    /\ \A c \in 1..Len(feat.df.cols) : feat.change.cols[c] = feat.df.cols[c] \o "_change"
    /\ \A c \in 1..Len(feat.change.cols) :
         /\ Len(feat.change.data[c]) = rows
         /\ \A k \in 1..rows : ~feat.change.data[c][k].nan

\* C15 as stated: a valid price table of N rows gives a change table of
\* N - 1 rows, the same columns renamed '<col>_change', no missing value.
C15_ChangeTableHasOneRowLess ==
    ChangeComputed => ChangeTableShape(Len(feat.df.index) - 1)

\* C15 amended: N - 1 rows for a table with at least one row, and an empty
\* change table for an empty price table.
C15_ChangeTableDropsFirstRow ==
    ChangeComputed =>
        /\ ChangeTableShape(IF Len(feat.df.index) = 0 THEN 0 ELSE Len(feat.df.index) - 1)
        /\ DateSet(feat.change.index) = FeatDates \ {1}

C15_Witness ==
    /\ ChangeComputed
    /\ feat.df.cols = <<"Gold", "BIST100", "Oil">>
    /\ Len(feat.df.index) = 4
    /\ feat.change.index = <<2, 3, 4>>
    /\ feat.change.data[1] = <<Cell(100), Cell(-50), Cell(0)>>

Aligned ==
    /\ feat.op = "prepare_data"
    /\ Has(feat.df.cols, "BIST100")

\* C16: differing indices are aligned on their intersection without error,
\* and an empty intersection is reported as insufficient aligned data before
\* standardization runs.
C16_EmptyAlignmentFailsBeforeScaling ==
    Aligned =>
        /\ feat.prepared.clean_idx # <<>> => ~feat.prepared.raised
        /\ feat.prepared.clean_idx = <<>> =>
              /\ feat.prepared.raised
              /\ feat.prepared.at # "StandardScaler.fit_transform"

Analyzed == feat.op = "analyze_lag_importance"

lag_corrs == feat.analysis.lag_corrs

RecordFor(v, k) == \E j \in 1..Len(lag_corrs) : lag_corrs[j].variable = v /\ lag_corrs[j].lag_days = k

\* C17: a record exists for (v, k) iff v is a non-target column, k is
\* between 1 and 30, and k is smaller than the number of change rows (some
\* date has both the target change and v's change shifted by k).
C17_RecordIffOverlap ==
    Analyzed =>
        /\ \A j \in 1..Len(lag_corrs) : Has(feat.df.cols, lag_corrs[j].variable)
        /\ \A c \in 1..Len(feat.df.cols) : \A k \in 0..31 :
             RecordFor(feat.df.cols[c], k) <=>
                 /\ Has(feat.df.cols, "BIST100")
                 /\ feat.df.cols[c] # "BIST100"
                 /\ 1 <= k /\ k <= 30
                 /\ k < Len(feat.df.index) - 1

\* Records for lags 1 and 2, none for lag 3 on a table of three changes.
C17_Witness ==
    /\ Analyzed
    /\ Len(feat.df.index) = 4
    /\ RecordFor("Gold", 1) /\ RecordFor("Gold", 2) /\ ~RecordFor("Gold", 3)
    /\ ~feat.analysis.raised

\* C18: no (variable, lag) pair occurs twice, and the records are grouped by
\* variable in the table's column order with lags ascending inside a group.
C18_RecordsUniqueAndOrdered ==
    Analyzed =>
        \A i \in 1..Len(lag_corrs), j \in 1..Len(lag_corrs) :
            i < j =>
                LET ci == ColumnIndex(feat.df.cols, lag_corrs[i].variable)
                    cj == ColumnIndex(feat.df.cols, lag_corrs[j].variable)
                IN  \/ ci < cj
                    \/ ci = cj /\ lag_corrs[i].lag_days < lag_corrs[j].lag_days

\* Two variables with two lags each.
C18_Witness ==
    /\ Analyzed
    /\ Len(lag_corrs) = 4
    /\ lag_corrs[2].variable = "Gold" /\ lag_corrs[2].lag_days = 2
    /\ lag_corrs[3].variable = "Oil" /\ lag_corrs[3].lag_days = 1

RangeDone == span.pc = "done"

ServedFromCache == RangeDone /\ span.before.some

\* C19: with a cached file, get_data returns exactly the cached rows dated
\* within [start, end], both ends included (possibly none), calls neither
\* the collector nor the provider, and leaves the file as it was.
C19_CacheHitIsFilteredAndPure ==
    ServedFromCache =>
        /\ span.returned.some
        /\ span.returned.dates =
              {d \in span.before.dates : span.start <= d /\ d <= span.end}
        /\ span.calls = <<"cache">>
        /\ ~span.wrote
        /\ span.cache = span.before

\* Rows on both ends of the range are kept, one outside it is dropped.
C19_Witness ==
    /\ ServedFromCache
    /\ span.start < span.end
    /\ {span.start, span.end} \subseteq span.returned.dates
    /\ span.before.dates \ span.returned.dates # {}

\* C20: whichever strategy answered, with the provider answering every
\* query, the returned table has a row for every date of the provider's
\* history within [start, end] and no row outside [start, end].
C20_ReturnedCoversRequestedRange ==
    (RangeDone /\ span.up) =>
        /\ {d \in span.history : span.start <= d /\ d <= span.end} \subseteq span.returned.dates
        /\ \A d \in span.returned.dates : span.start <= d /\ d <= span.end

\* ---------------------------------------------------------- claims C21-C29
Merged == feat.op \in {"download_data", "inline"}

\* C21: the table download_data or the inline fallback returns has a
\* strictly increasing date index and no missing cell.
C21_MergedTableSortedAndFilled ==
    Merged =>
        /\ \A j \in 1..Len(feat.df.index), k \in 1..Len(feat.df.index) :
             j < k => feat.df.index[j] < feat.df.index[k]
        /\ \A c \in 1..Len(feat.df.cols) : \A k \in 1..Len(feat.df.index) :
             ~feat.df.data[c][k].nan

CriterionEvaluated ==
    /\ trained.kind = "returned"
    /\ trained.model.some
    /\ \/ trained.entry = "train_and_evaluate_model"
       \/ trained.entry = "train_with_different_params" /\ trained.verbose

\* C22: wherever a training entry point evaluates the success criterion, it
\* is met iff the held-out accuracy is strictly greater than 0.55 (11
\* twentieths); an accuracy of exactly 0.55 does not meet it.
C22_SuccessIffStrictlyAboveThreshold ==
    CriterionEvaluated => (trained.success <=> trained.accuracy > 11)

\* An accuracy of exactly 0.55 reported as not meeting the criterion.
C22_Witness ==
    /\ CriterionEvaluated
    /\ trained.entry = "train_and_evaluate_model"
    /\ trained.accuracy = 11
    /\ ~trained.success

\* C23: train_and_evaluate_model hands back five values on every path on
\* which it returns, with a missing prepared-data file and after training.
C23_ReturnsFiveValuesOnEveryPath ==
    (trained.entry = "train_and_evaluate_model" /\ trained.kind = "returned") =>
        trained.arity = 5

DownloadedUsable ==
    /\ fetch.df.some
    /\ Has(fetch.df.cols, "BIST100")
    /\ fetch.df.rows >= 3

\* C24: collect_data(save=False) on a usable download returns its tuple
\* without raising and leaves every file as it was.
C24_DryRunReturnsAndWritesNothing ==
    (pc = "done" /\ op = "collect_data(save=False)" /\ DownloadedUsable) =>
        /\ result.kind = "ok"
        /\ files = pre

\* C25: the served vector has one entry per persisted feature name and
\* nothing else; without a persisted list no vector is made up from the
\* columns of the price table.
C25_VectorOnlyFromPersistedNames ==
    FeaturesBuilt => Len(page.features) = Len(StoredFeatureNames(models))

CollectorFilesPresent == files.raw.some /\ files.prep.some /\ files.meta.some

\* C26: once the collector has written its three files into a data
\* directory that was empty, a dashboard run loads raw data, prepared data
\* and metadata without a load error.
C26_DashboardFindsCollectorFiles ==
    (page.pc # "start" /\ CollectorFilesPresent) =>
        /\ page.raw_data.some
        /\ page.prepared_data.some
        /\ "load_error" \notin page.shown

\* C27: a get_data call that started without a cache file and retrieved no
\* symbol ends without one, and a cache file always holds at least one
\* series (so the next call goes to the provider again).
C27_NoSymbolLeavesCacheAbsent ==
    /\ (op = "get_data" /\ pc = "done" /\ ~pre.raw.some /\ NothingRetrieved) => ~files.raw.some
    /\ files.raw.some => files.raw.cols # <<>>


PreparedFrom == feat.op = "prepare_data" /\ Has(feat.df.cols, "BIST100")

NonTarget(cols) == SelectSeq(cols, LAMBDA c : ~IsTargetColumn(c))

\* The feature names the claims expect: the change columns, then for each
\* non-target column in order its lagged copies in the order of L.
NamesAsStated ==
    LET C  == Len(feat.change.cols)
        nt == NonTarget(feat.change.cols)
        L  == feat.lag_days
        names == feat.prepared.feature_names
    IN  IF ~feat.use_lags THEN names = feat.change.cols
        ELSE /\ Len(names) = C + Len(nt) * Len(L)
             /\ SubSeq(names, 1, C) = feat.change.cols
             /\ \A i \in 1..Len(nt) : \A k \in 1..Len(L) :
                  names[C + (i - 1) * Len(L) + k] = LagName(nt[i], L[k])

RowsAndNames(expect) ==
    expect > 0 =>
        /\ ~feat.prepared.raised
        /\ Len(feat.prepared.clean_idx) = expect
        /\ Len(feat.prepared.y) = expect
        /\ feat.prepared.clean_idx = SubSeq(feat.df.index, Len(feat.df.index) - expect, Len(feat.df.index) - 1)
        /\ feat.prepared.feature_names = feat.prepared.df_pct.cols
        /\ NamesAsStated

\* C28 as stated: N - 2 aligned rows without lags, N - 2 - max(L) with lags
\* L when positive; one feature name per column, the change columns first
\* and then each non-target column's lagged copies in the order of L.
C28_AlignedRowsAndNames ==
    PreparedFrom =>
        RowsAndNames(IF feat.use_lags THEN Len(feat.df.index) - 2 - Max(LagSet)
                     ELSE Len(feat.df.index) - 2)

\* C28 amended: with lags the rows are N - 2 - max(L) when the table has a
\* non-target column, and N - 2 when it has none.
C28_AlignedRowsAndNamesWhenLagged ==
    PreparedFrom =>
        RowsAndNames(IF feat.use_lags /\ NonTarget(feat.change.cols) # <<>>
                     THEN Len(feat.df.index) - 2 - Max(LagSet)
                     ELSE Len(feat.df.index) - 2)

\* Five days, lags 2 then 1, a target between two columns that are lagged.
C28_Witness ==
    /\ PreparedFrom
    /\ feat.use_lags
    /\ feat.lag_days = <<2, 1>>
    /\ Len(feat.df.index) = 5
    /\ feat.prepared.clean_idx = <<4>>
    /\ Len(feat.prepared.y) = 1
    /\ feat.prepared.feature_names =
         <<"Gold_change", "BIST100_change", "Oil_change", "Gold_change_lag2",
           "Gold_change_lag1", "Oil_change_lag2", "Oil_change_lag1">>


LagFailed == page.lag = "failed"

Tab1Passed == page.pc \in {"tab2", "features", "predict", "performance", "tab3", "footer", "shown"}

Tab2Passed == page.pc \in {"tab3", "footer", "shown"}

Tab3Passed == "global_variables" \in page.shown

====
